---- MODULE Spec2Model ----
(***************************************************************************)
(* Candidate pooling and fair-mix allocation of the caller assignment      *)
(* system: allocator/pool.py, allocator/requery.py (escalating-window      *)
(* pool construction) and allocator/mix_allocator.py (quota split,         *)
(* primary round-robin, spillover, balancing), with the run flow of        *)
(* scheduler/runner.py and load_windows of config/windows_loader.py.       *)
(* Each function has its own specification (Spec, PoolSpec, SplitSpec,     *)
(* FilterSpec, NormSpec, FlowSpec, LoaderSpec); the variables of the       *)
(* others are parked.                                                      *)
(*                                                                         *)
(* Modelling conventions                                                   *)
(*  - a DataFrame is a sequence of rows; the row label of the pool handed  *)
(*    to allocate is its position (build_windowed_pool concatenates with   *)
(*    ignore_index=True);                                                  *)
(*  - a Python dict is kept in insertion order as a sequence of [k, w]     *)
(*    records where the order is read (source_mix), and as a function      *)
(*    where only lookups happen (quotas, remaining_capacity, counts);      *)
(*  - mix weights are floats in the code; here they are integers (tenths), *)
(*    and total * w / s is computed exactly over the common denominator s; *)
(*  - hashlib.md5 is tabulated for the dates and context strings used:     *)
(*    the tables hold int(md5(key).hexdigest()[:8], 16) modulo 196608      *)
(*    (= 3 * 2^16), which determines the value modulo every n the code     *)
(*    uses here (roster sizes 1..3 and 1 << 16).                           *)
(***************************************************************************)
EXTENDS Integers, Sequences, FiniteSets, TLC

\* ------------------------------------------------------------------ bounds
MaxPool == 3
MaxTarget == 2
MaxCand == 3
MaxTargetRows == 2
MaxTotal == 5
MaxWeight == 3
MaxFilterRows == 2
MaxPhoneLen == 10
MaxFlowRows == 2
MaxSheetRows == 2

\* --------------------------------------------------------------- constants
HashRange == 65536

None == "None"

AllSources == {"A", "B", "C"}

\* candidates.columns of the pool handed to allocate, as far as it is read
CandidateColumns == {"source_key"}

\* Python's str ordering of the source keys used (sorted(..., key=(.., k)))
SrcRank == ("A" :> 1) @@ ("B" :> 2) @@ ("C" :> 3)

Days == {"2024-05-01", "2024-05-02"}

\* md5(f"{today_str}-{src}") for the sources that can be keys of source_mix
Md5Source ==
  ("2024-05-01" :> (("A" :> 14747) @@ ("B" :> 13378))) @@
  ("2024-05-02" :> (("A" :> 170355) @@ ("B" :> 70501)))

\* md5(f"{today_str}-spillover")
Md5Spillover == ("2024-05-01" :> 109546) @@ ("2024-05-02" :> 171033)

\* md5(today_str + "-target-" + x)
Md5Target ==
  ("2024-05-01" :> (("c1" :> 129046) @@ ("c2" :> 5902) @@ ("c3" :> 195462))) @@
  ("2024-05-02" :> (("c1" :> 54150) @@ ("c2" :> 29140) @@ ("c3" :> 159090)))

\* ---------------------------------------------------------- input domains
RosterSet == {<<>>, <<"c1">>, <<"c1", "c2">>, <<"c1", "c2", "c3">>}

MixSet ==
  { <<>>,
    <<[k |-> "A", w |-> 7], [k |-> "B", w |-> 3]>>,
    <<[k |-> "B", w |-> 1], [k |-> "A", w |-> 1]>>,
    <<[k |-> "A", w |-> 1]>>,
    <<[k |-> "A", w |-> 1], [k |-> "B", w |-> 0]>>,
    <<[k |-> "A", w |-> 0], [k |-> "B", w |-> 0]>> }

SeqsUpTo(S, n) == UNION {[1..m -> S] : m \in 0..n}

\* ----------------------------------------------------------------- helpers
Range(f) == {f[x] : x \in DOMAIN f}

Max(a, b) == IF a >= b THEN a ELSE b

RECURSIVE SumOver(_, _)
SumOver(f, S) ==
  IF S = {} THEN 0
  ELSE LET x == CHOOSE y \in S : TRUE IN f[x] + SumOver(f, S \ {x})

SumValues(f) == SumOver(f, DOMAIN f)

MixKeys(mix) == [i \in DOMAIN mix |-> mix[i].k]

MixWeight(mix, key) == mix[CHOOSE i \in DOMAIN mix : mix[i].k = key].w

\* sorted(xs, key=...) : stable ascending sort of a sequence, key a function
\* from the elements to integers; equal keys keep their order in xs
RECURSIVE SortedIdx(_, _, _)
SortedIdx(xs, key, todo) ==
  IF todo = {} THEN <<>>
  ELSE LET first == CHOOSE i \in todo :
                      \A j \in todo \ {i} :
                        \/ key[xs[i]] < key[xs[j]]
                        \/ key[xs[i]] = key[xs[j]] /\ i < j
       IN <<xs[first]>> \o SortedIdx(xs, key, todo \ {first})

Sorted(xs, key) == SortedIdx(xs, key, DOMAIN xs)

\* ------------------------------------------------------ mix_allocator.py
StableOffset(h, n) == IF n <= 0 THEN 0 ELSE h % n

Rotate(xs, offset) ==
  IF xs = <<>> THEN xs
  ELSE LET o == offset % Len(xs)
       IN SubSeq(xs, o + 1, Len(xs)) \o SubSeq(xs, 1, o)

\* deque.rotate(1): the rotation runs backwards
RotateRight(dq) ==
  IF dq = <<>> THEN dq ELSE <<dq[Len(dq)]>> \o SubSeq(dq, 1, Len(dq) - 1)

\* deque.rotate(-1)
RotateLeft(dq) == IF dq = <<>> THEN dq ELSE Tail(dq) \o <<Head(dq)>>

\* order[:remaining - 1]: the last unit of the shortfall is not handed out
ExtraUnitOneShort(pos, remaining) == IF pos < remaining - 1 THEN 1 ELSE 0

\* for k in order[:remaining]: base[k] += 1 ; pos the 0-based place of k in order
ExtraUnit(pos, remaining) == IF pos < remaining THEN 1 ELSE 0

\* the sort of line 51 with ties broken by descending key name
SortsBeforeKeyDescending(rj, j, rk, k) ==
  \/ rj > rk
  \/ rj = rk /\ SrcRank[j] > SrcRank[k]

\* sorted(wnorm.keys(), key=lambda k: (-remainders[k], k)): j sorts before k
SortsBefore(rj, j, rk, k) ==
  \/ rj > rk
  \/ rj = rk /\ SrcRank[j] < SrcRank[k]

FairRoundSplit(total, weights) ==
  LET keys == Range(MixKeys(weights))
      zero == [k \in keys |-> 0]
      wpos == [k \in keys |-> Max(0, MixWeight(weights, k))]
      s == SumValues(wpos)
      \* total * wnorm[k] = share[k] / s
      share == [k \in keys |-> total * wpos[k]]
      base == [k \in keys |-> share[k] \div s]
      assigned == SumValues(base)
      remaining == Max(0, total - assigned)
      remainders == [k \in keys |-> share[k] % s]
      pos == [k \in keys |->
                Cardinality({j \in keys :
                               SortsBefore(remainders[j], j, remainders[k], k)})]
  IN IF total <= 0 \/ weights = <<>> THEN zero
     ELSE IF s <= 0 THEN zero
     ELSE IF remaining = 0 THEN base
     ELSE [k \in keys |-> base[k] + ExtraUnit(pos[k], remaining)]

QuotasPerCaller(ids, target, mix) ==
  [c \in Range(ids) |-> FairRoundSplit(target, mix)]

\* candidates.groupby("source_key").groups, a missing key an empty deque
GroupBySource(cands) ==
  [src \in AllSources |->
     SelectSeq([i \in DOMAIN cands |-> i], LAMBDA i : cands[i] = src)]

\* spillover order: sorted(source_mix.keys(), key=weight, reverse=True); a
\* reversed stable sort keeps equal weights in the order of the keys
SpillSourceOrder(mix) ==
  Sorted(MixKeys(mix), [k \in Range(MixKeys(mix)) |-> 0 - MixWeight(mix, k)])

RECURSIVE ExtendAll(_, _)
ExtendAll(srcs, queues) ==
  IF srcs = <<>> THEN <<>>
  ELSE queues[Head(srcs)] \o ExtendAll(Tail(srcs), queues)

\* only the leftovers of the heaviest source are queued
RemainingCandidatesTopOnly(mix, queues) ==
  IF SpillSourceOrder(mix) = <<>> THEN <<>> ELSE queues[Head(SpillSourceOrder(mix))]

\* rows the leftover queues hand to the spillover pass
RemainingCandidates(mix, queues) == ExtendAll(SpillSourceOrder(mix), queues)

\* out.at[idx, "caller_id"] = c for every pair, later pairs overwrite
CallerOf(rows, i) ==
  LET hits == {j \in DOMAIN rows : rows[j][1] = i}
  IN IF hits = {} THEN None
     ELSE rows[CHOOSE j \in hits : \A h \in hits : h <= j][2]

\* the rows without a caller are not filtered out
TagRowsKeepNull(cands, rows) ==
  [i \in DOMAIN cands |->
     [idx |-> i, source_key |-> cands[i], caller_id |-> CallerOf(rows, i)]]

\* out[out["caller_id"].notna()].reset_index(drop=True)
TagRows(cands, rows) ==
  SelectSeq([i \in DOMAIN cands |->
               [idx |-> i, source_key |-> cands[i], caller_id |-> CallerOf(rows, i)]],
            LAMBDA r : r.caller_id # None)

\* value_counts().reindex(caller_ids).fillna(0)
ValueCounts(o, ids) ==
  [c \in Range(ids) |-> Cardinality({i \in DOMAIN o : o[i].caller_id = c})]

TargetOrder(ids, day) ==
  Sorted(ids, [x \in Range(ids) |-> StableOffset(Md5Target[day][x], HashRange)])

\* the extra row goes to the last callers of the order, not the first
DesiredExtraToLast(ids, day, total) ==
  LET n == Len(ids)
      base == total \div n
      remainder == total % n
      order == TargetOrder(ids, day)
  IN [c \in Range(ids) |->
        LET i == CHOOSE j \in DOMAIN order : order[j] = c
        IN base + (IF n - i < remainder THEN 1 ELSE 0)]

Desired(ids, day, total) ==
  LET n == Len(ids)
      base == total \div n
      remainder == total % n
      order == TargetOrder(ids, day)
  IN [c \in Range(ids) |->
        LET i == CHOOSE j \in DOMAIN order : order[j] = c
        IN base + (IF i - 1 < remainder THEN 1 ELSE 0)]

Overfull(ids, cnt, des) == SelectSeq(ids, LAMBDA c : cnt[c] > des[c])

\* a caller one row short is not seen as underfull
UnderfullOffByOne(ids, cnt, des) == SelectSeq(ids, LAMBDA c : cnt[c] < des[c] - 1)

Underfull(ids, cnt, des) == SelectSeq(ids, LAMBDA c : cnt[c] < des[c])

\* the first pair only, and the moved row is taken out and put back last
MovePairsReorder(o, cnt, donors, takers) ==
  IF donors = <<>> \/ takers = <<>>
  THEN [out |-> o, counts |-> cnt, moved |-> FALSE]
  ELSE LET d == Head(donors)
           t == Head(takers)
           rows == {i \in DOMAIN o : o[i].caller_id = d}
       IN IF rows = {}
          THEN [out |-> o, counts |-> cnt, moved |-> FALSE]
          ELSE LET ridx == CHOOSE i \in rows : \A j \in rows : j <= i
                   kept == [i \in 1..(Len(o) - 1) |-> IF i < ridx THEN o[i] ELSE o[i + 1]]
                   c1 == [cnt EXCEPT ![d] = @ - 1]
               IN [out |-> Append(kept, [o[ridx] EXCEPT !.caller_id = t]),
                   counts |-> [c1 EXCEPT ![t] = @ + 1],
                   moved |-> TRUE]

\* for d, t in zip(donors, takers): move the last row of d to t
RECURSIVE MovePairs(_, _, _, _)
MovePairs(o, cnt, donors, takers) ==
  IF donors = <<>> \/ takers = <<>>
  THEN [out |-> o, counts |-> cnt, moved |-> FALSE]
  ELSE LET d == Head(donors)
           t == Head(takers)
           rows == {i \in DOMAIN o : o[i].caller_id = d}
       IN IF rows = {}
          THEN MovePairs(o, cnt, Tail(donors), Tail(takers))
          ELSE LET ridx == CHOOSE i \in rows : \A j \in rows : j <= i
                   o2 == [o EXCEPT ![ridx].caller_id = t]
                   c1 == [cnt EXCEPT ![d] = @ - 1]
                   c2 == [c1 EXCEPT ![t] = @ + 1]
                   rest == MovePairs(o2, c2, Tail(donors), Tail(takers))
               IN [rest EXCEPT !.moved = TRUE]

\* ------------------------------------------------- pool.py, requery.py
\* an optional number is a tuple: <<>> for NaT / NaN / None, <<n>> for n
NaT == <<>>

Digits == {"0", "1", "2", "3", "4", "5", "6", "7", "8", "9"}

\* raw phone values, as sequences of characters
PhoneA9 == <<"8", "1", "2", "3", "4", "5", "6", "7", "8">>
PhoneA10 == <<"0", "8", "1", "-", "2", "3", "4", "5", "6", "7", "8">>
PhoneB == <<"0", "8", "9", "9", "9", "9", "9", "9", "9", "9">>

RawPhones == {PhoneA9, PhoneA10, PhoneB}

\* as-of day and last_login_date values, as day numbers; NaT an absent or
\* unparseable date
AsOfDays == {100}
LoginDates == {NaT, <<95>>, <<80>>}

Hot == [label |-> "Hot", day_min |-> 3, day_max |-> <<5>>, priority |-> 1]
Cold == [label |-> "Cold", day_min |-> 5, day_max |-> <<>>, priority |-> 2]

\* rule lists in any order of the priority field, no rule twice
RuleLists == {<<>>, <<Hot>>, <<Cold>>, <<Hot, Cold>>, <<Cold, Hot>>}

\* eligibility gates handed to build_candidate_pool: the rows whose raw
\* phone is in the set are dropped
FilterSet == {{}, {PhoneA9}}

Builders == {"build_windowed_pool", "build_candidate_pool"}

\* _require_columns(df_all, ["last_login_date", "phone"])
RequiredColumns == {"last_login_date", "phone"}

\* df_all.columns: source_key always, each required column present or not
ColumnSets == {{"source_key"} \cup S : S \in SUBSET RequiredColumns}

\* nine digits are returned as they are
NormPhoneNoPad(raw) == SelectSeq(raw, LAMBDA ch : ch \in Digits)

NormPhone(raw) ==
  LET digits == SelectSeq(raw, LAMBDA ch : ch \in Digits)
  IN IF Len(digits) = 9 THEN <<"0">> \o digits ELSE digits

\* (asof_ts - last_login_ts).dt.days ; NaT gives NaN, kept as NaT
DaysSinceLastLogin(row, asof_day) ==
  LET t == row.last_login_date
  IN IF t = NaT THEN NaT
     ELSE <<(asof_day * 24 - (t[1] * 24 + (IF Len(t) > 1 THEN t[2] ELSE 0))) \div 24>>

\* the upper end of the window is excluded
InWindowExclusiveMax(row, asof_day, rule) ==
  LET days == DaysSinceLastLogin(row, asof_day)
  IN /\ days # NaT
     /\ days[1] >= rule.day_min
     /\ (rule.day_max # <<>> => days[1] < rule.day_max[1])

\* mask_min & mask_max of one row; every comparison with NaN is False
InWindow(row, asof_day, rule) ==
  LET days == DaysSinceLastLogin(row, asof_day)
  IN /\ days # NaT
     /\ days[1] >= rule.day_min
     /\ (rule.day_max # <<>> => days[1] <= rule.day_max[1])

FilterByWindowRule(df, asof_day, rule) ==
  LET hit == SelectSeq(df, LAMBDA r : InWindow(r, asof_day, rule))
  IN [i \in DOMAIN hit |->
        [phone |-> hit[i].phone, last_login_date |-> hit[i].last_login_date,
         window_label |-> rule.label]]

ApplyAllFilters(df_win, gate) == SelectSeq(df_win, LAMBDA r : r.phone \notin gate)

\* df.loc[~phones_norm.isin(seen_phones)]
KeepUnseen(dfw, seen) == SelectSeq(dfw, LAMBDA r : NormPhone(r.phone) \notin seen)

\* the pool is returned untrimmed
HeadRowsUntrimmed(df, n) == df

\* the last n rows are kept instead of the first
HeadRowsFromEnd(df, n) ==
  SubSeq(df, IF n < Len(df) THEN Len(df) - n + 1 ELSE 1, Len(df))

\* pool.head(target_rows)
HeadRows(df, n) == SubSeq(df, 1, IF n < Len(df) THEN n ELSE Len(df))

VARIABLES
  candidates,          \* allocate: the pool, one source_key per row
  caller_ids,          \* allocate: the roster
  per_caller_target,
  source_mix,
  today,               \* date.today() read inside allocate
  per_source,
  quotas,
  remaining_capacity,
  assigned_rows,
  src_i,               \* position of the primary pass in source_mix.keys()
  rr_callers,
  rc_queue,
  rr_spill,
  out, out_columns,
  counts,
  desired,
  pc,
  run_no,              \* 1: first call, 2: the call repeated with the same arguments
  prev_out,            \* what the first call returned
  builder,             \* which pool builder runs
  df_all,              \* the candidate rows
  df_columns,          \* df_all.columns
  asof,
  windows,
  target_rows,
  apply_all_filters,   \* build_candidate_pool: the eligibility gate
  pool,
  pool_columns,        \* the columns of the pool
  pool_error,          \* the exception the builder raised, if any
  seen_phones,
  rule_i,              \* position of the loop in windows
  ppc,
  split_total,         \* _fair_round_split called on its own
  split_weights,
  split_result,
  spc,
  f_df,                \* filter_by_window_rule called on its own
  f_asof,
  f_rule,
  f_out,
  fpc,
  n_raw,               \* _norm_phone called on its own, in its three copies
  n_out,
  npc,
  fl_sources,          \* run_assignment_flow: SOURCES, as its set of keys
  fl_mix,              \* SOURCE_MIX
  fl_callers,          \* caller_ids
  fl_blacklist,        \* bl["triples"]
  fl_blocked,          \* usernames the legacy filters block
  fl_windows,          \* settings.CONFIG.get("windows", [])
  fl_raw,              \* what load_all_candidates returns
  fl_columns,          \* its columns
  fl_pool,             \* pool_raw, then pool_filtered, then pool
  fl_alloc,            \* the arguments of the call of allocate, if made
  fl_result,           \* how the flow ended
  fl_pc,
  w_sheet,             \* load_windows: the rows of the Windows tab
  w_rules,
  w_error,
  wpc

vars == <<candidates, caller_ids, per_caller_target, source_mix, today,
          per_source, quotas, remaining_capacity, assigned_rows, src_i,
          rr_callers, rc_queue, rr_spill, out, out_columns, counts, desired, pc,
          run_no, prev_out,
          builder, df_all, df_columns, asof, windows, target_rows,
          apply_all_filters, pool, pool_columns, pool_error, seen_phones, rule_i, ppc,
          split_total, split_weights, split_result, spc,
          f_df, f_asof, f_rule, f_out, fpc, n_raw, n_out, npc,
          fl_sources, fl_mix, fl_callers, fl_blacklist, fl_blocked, fl_windows,
          fl_raw, fl_columns, fl_pool, fl_alloc, fl_result, fl_pc,
          w_sheet, w_rules, w_error, wpc>>

split_vars == <<split_total, split_weights, split_result, spc>>

filter_vars == <<f_df, f_asof, f_rule, f_out, fpc>>

norm_vars == <<n_raw, n_out, npc>>

flow_inputs == <<fl_sources, fl_mix, fl_callers, fl_blacklist, fl_blocked,
                 fl_windows, fl_raw, fl_columns>>

flow_vars == <<flow_inputs, fl_pool, fl_alloc, fl_result, fl_pc>>

loader_vars == <<w_sheet, w_rules, w_error, wpc>>

aux_vars == <<filter_vars, norm_vars, flow_vars, loader_vars>>

alloc_vars == <<candidates, caller_ids, per_caller_target, source_mix, today,
                per_source, quotas, remaining_capacity, assigned_rows, src_i,
                rr_callers, rc_queue, rr_spill, out, out_columns, counts, desired, pc,
                run_no, prev_out>>

pool_inputs == <<builder, df_all, df_columns, asof, windows, target_rows,
                 apply_all_filters>>

pool_vars == <<builder, df_all, df_columns, asof, windows, target_rows,
               apply_all_filters, pool, pool_columns, pool_error, seen_phones,
               rule_i, ppc>>

arguments == <<candidates, caller_ids, per_caller_target, source_mix>>

locals == <<per_source, quotas, remaining_capacity, assigned_rows, src_i,
            rr_callers, rc_queue, rr_spill, out, out_columns, counts, desired>>

\* no pool is being built
PoolIdle ==
  /\ builder = "build_windowed_pool"
  /\ df_all = <<>>
  /\ df_columns = {}
  /\ asof = 100
  /\ windows = <<>>
  /\ target_rows = 0
  /\ apply_all_filters = {}
  /\ pool = <<>>
  /\ pool_columns = {}
  /\ pool_error = None
  /\ seen_phones = {}
  /\ rule_i = 0
  /\ ppc = "off"

\* no split is being computed on its own
SplitIdle ==
  /\ split_total = 0
  /\ split_weights = <<>>
  /\ split_result = <<>>
  /\ spc = "off"

\* no filter is being applied on its own
FilterIdle ==
  /\ f_df = <<>>
  /\ f_asof = 100
  /\ f_rule = Hot
  /\ f_out = <<>>
  /\ fpc = "off"

\* no phone is being normalized on its own
NormIdle ==
  /\ n_raw = <<>>
  /\ n_out = <<>>
  /\ npc = "off"

\* no assignment flow is running
FlowIdle ==
  /\ fl_sources = {}
  /\ fl_mix = <<>>
  /\ fl_callers = <<>>
  /\ fl_blacklist = {}
  /\ fl_blocked = {}
  /\ fl_windows = <<>>
  /\ fl_raw = <<>>
  /\ fl_columns = {}
  /\ fl_pool = <<>>
  /\ fl_alloc = <<>>
  /\ fl_result = None
  /\ fl_pc = "off"

\* no Windows tab is being loaded
LoaderIdle ==
  /\ w_sheet = <<>>
  /\ w_rules = <<>>
  /\ w_error = None
  /\ wpc = "off"

AuxIdle == FilterIdle /\ NormIdle /\ FlowIdle /\ LoaderIdle

Init ==
  /\ candidates \in SeqsUpTo(AllSources, MaxPool)
  /\ caller_ids \in RosterSet
  /\ per_caller_target \in 0..MaxTarget
  /\ source_mix \in MixSet
  /\ today \in Days
  /\ per_source = [src \in AllSources |-> <<>>]
  /\ quotas = <<>>
  /\ remaining_capacity = <<>>
  /\ assigned_rows = <<>>
  /\ src_i = 0
  /\ rr_callers = <<>>
  /\ rc_queue = <<>>
  /\ rr_spill = <<>>
  /\ out = <<>>
  /\ out_columns = {}
  /\ counts = <<>>
  /\ desired = <<>>
  /\ pc = "start"
  /\ run_no = 1
  /\ prev_out = <<>>
  /\ PoolIdle
  /\ SplitIdle
  /\ AuxIdle

\* the source the primary pass is at
CurSrc == source_mix[src_i].k

AnyQuotaLeft(src) == \E i \in DOMAIN rr_callers : quotas[rr_callers[i]][src] > 0

AllCapacityUsed(cap) == \A c \in DOMAIN cap : cap[c] <= 0

\* the spillover pass hands a row to a caller whatever its capacity
NoCapacityIgnored(cap, c) == FALSE

\* line 136: remaining_capacity.get(c, 0) <= 0
NoCapacity(cap, c) == cap[c] <= 0

\* the check of per_caller_target is left out
TrivialInputTargetUnchecked ==
  candidates = <<>> \/ caller_ids = <<>> \/ source_mix = <<>>

\* lines 77 and 81: the inputs that make allocate return at once
TrivialInput ==
  candidates = <<>>
    \/ caller_ids = <<>> \/ per_caller_target <= 0 \/ source_mix = <<>>

\* lines 77-94: the two early returns, then the set-up of the passes
AllocEntry ==
  /\ UNCHANGED <<pool_vars, split_vars, aux_vars>>
  /\ pc = "start"
  /\ IF TrivialInput
     THEN /\ out' = TagRows(candidates, <<>>)
          /\ out_columns' = CandidateColumns \cup {"caller_id"}
          /\ pc' = "done"
          /\ UNCHANGED <<per_source, quotas, remaining_capacity, assigned_rows, src_i>>
     ELSE /\ per_source' = GroupBySource(candidates)
          /\ quotas' = QuotasPerCaller(caller_ids, per_caller_target, source_mix)
          /\ remaining_capacity' = [c \in Range(caller_ids) |-> SumValues(quotas'[c])]
          /\ assigned_rows' = <<>>
          /\ src_i' = 1
          /\ pc' = "primary"
          /\ UNCHANGED <<out, out_columns>>
  /\ UNCHANGED <<arguments, today, rr_callers, rc_queue, rr_spill, counts, desired,
                 run_no, prev_out>>

\* lines 100-107: next source of the mix; skip it when it has no rows
PrimarySource ==
  /\ UNCHANGED <<pool_vars, split_vars, aux_vars>>
  /\ pc = "primary"
  /\ src_i <= Len(source_mix)
  /\ IF per_source[CurSrc] = <<>>
     THEN /\ src_i' = src_i + 1
          /\ UNCHANGED <<rr_callers, pc>>
     ELSE /\ rr_callers' = Rotate(caller_ids,
                                  StableOffset(Md5Source[today][CurSrc], Len(caller_ids)))
          /\ pc' = "primary_rr"
          /\ src_i' = src_i
  /\ UNCHANGED <<arguments, today, per_source, quotas, remaining_capacity, assigned_rows,
                 rc_queue, rr_spill, out, out_columns, counts, desired, run_no, prev_out>>

\* an accepted offer of the primary pass leaves the caller's capacity as it was
CapacityAfterAssignKept(cap) == cap

\* line 120: remaining_capacity[c] -= 1
CapacityAfterAssign(cap) == cap - 1

\* an accepted offer leaves the caller's quota for the source as it was
QuotaAfterAssignKept(q) == q

\* line 119: quotas[c][src] -= 1
QuotaAfterAssign(q) == q - 1

\* lines 110-120: one turn of the while loop, an offer to the head caller
PrimaryOffer ==
  /\ UNCHANGED <<pool_vars, split_vars, aux_vars>>
  /\ pc = "primary_rr"
  /\ per_source[CurSrc] # <<>>
  /\ AnyQuotaLeft(CurSrc)
  /\ LET c == Head(rr_callers)
         src == CurSrc
     IN /\ rr_callers' = RotateLeft(rr_callers)
        /\ IF quotas[c][src] <= 0 \/ remaining_capacity[c] <= 0
           THEN UNCHANGED <<per_source, assigned_rows, quotas, remaining_capacity>>
           ELSE /\ per_source' = [per_source EXCEPT ![src] = Tail(@)]
                /\ assigned_rows' = Append(assigned_rows, <<Head(per_source[src]), c>>)
                /\ quotas' = [quotas EXCEPT ![c][src] = QuotaAfterAssign(@)]
                /\ remaining_capacity' =
                     [remaining_capacity EXCEPT ![c] = CapacityAfterAssign(@)]
  /\ UNCHANGED <<arguments, today, src_i, rc_queue, rr_spill, out, out_columns, counts, desired, pc,
                 run_no, prev_out>>

\* line 110: the while condition fails, on to the next source
PrimaryExit ==
  /\ UNCHANGED <<pool_vars, split_vars, aux_vars>>
  /\ pc = "primary_rr"
  /\ ~(per_source[CurSrc] # <<>> /\ AnyQuotaLeft(CurSrc))
  /\ src_i' = src_i + 1
  /\ pc' = "primary"
  /\ UNCHANGED <<arguments, today, per_source, quotas, remaining_capacity, assigned_rows,
                 rr_callers, rc_queue, rr_spill, out, out_columns, counts, desired, run_no, prev_out>>

\* lines 122-131: collect the leftover rows, rotate the callers for the spillover
SpillSetup ==
  /\ UNCHANGED <<pool_vars, split_vars, aux_vars>>
  /\ pc = "primary"
  /\ src_i > Len(source_mix)
  /\ rc_queue' = RemainingCandidates(source_mix, per_source)
  /\ rr_spill' = Rotate(caller_ids, StableOffset(Md5Spillover[today], Len(caller_ids)))
  /\ pc' = "spill"
  /\ UNCHANGED <<arguments, today, per_source, quotas, remaining_capacity, assigned_rows,
                 src_i, rr_callers, out, out_columns, counts, desired, run_no, prev_out>>

\* lines 133-142: one turn of the spillover loop
SpillOffer ==
  /\ UNCHANGED <<pool_vars, split_vars, aux_vars>>
  /\ pc = "spill"
  /\ rc_queue # <<>>
  /\ rr_spill # <<>>
  /\ LET c == Head(rr_spill)
     IN /\ rr_spill' = RotateLeft(rr_spill)
        /\ IF NoCapacity(remaining_capacity, c)
           THEN UNCHANGED <<rc_queue, assigned_rows, remaining_capacity, pc>>
           ELSE /\ rc_queue' = Tail(rc_queue)
                /\ assigned_rows' = Append(assigned_rows, <<Head(rc_queue), c>>)
                /\ remaining_capacity' = [remaining_capacity EXCEPT ![c] = @ - 1]
                /\ pc' = IF AllCapacityUsed(remaining_capacity') THEN "build" ELSE "spill"
  /\ UNCHANGED <<arguments, today, per_source, quotas, src_i, rr_callers, out, out_columns, counts,
                 desired, run_no, prev_out>>

\* line 133: the loop condition fails
SpillExit ==
  /\ UNCHANGED <<pool_vars, split_vars, aux_vars>>
  /\ pc = "spill"
  /\ ~(rc_queue # <<>> /\ rr_spill # <<>>)
  /\ pc' = "build"
  /\ UNCHANGED <<arguments, today, locals, run_no, prev_out>>

\* lines 144-161: the output table, the counts and the even target per caller
BuildOutput ==
  /\ UNCHANGED <<pool_vars, split_vars, aux_vars>>
  /\ pc = "build"
  /\ out' = TagRows(candidates, assigned_rows)
  /\ out_columns' = CandidateColumns \cup {"caller_id"}
  /\ IF out' # <<>>
     THEN /\ counts' = ValueCounts(out', caller_ids)
          /\ desired' = Desired(caller_ids, today, Len(out'))
          /\ pc' = "balance"
     ELSE /\ pc' = "done"
          /\ UNCHANGED <<counts, desired>>
  /\ UNCHANGED <<arguments, today, per_source, quotas, remaining_capacity, assigned_rows,
                 src_i, rr_callers, rc_queue, rr_spill, run_no, prev_out>>

\* lines 169-186: one turn of "while moved", then return out
BalanceRound ==
  /\ UNCHANGED <<pool_vars, split_vars, aux_vars>>
  /\ pc = "balance"
  /\ LET donors == Overfull(caller_ids, counts, desired)
         takers == Underfull(caller_ids, counts, desired)
         r == MovePairs(out, counts, donors, takers)
     IN IF donors = <<>> \/ takers = <<>>
        THEN /\ pc' = "done"
             /\ UNCHANGED <<out, counts>>
        ELSE /\ out' = r.out
             /\ counts' = r.counts
             /\ pc' = IF r.moved THEN "balance" ELSE "done"
  /\ UNCHANGED <<arguments, today, per_source, quotas, remaining_capacity, assigned_rows,
                 src_i, rr_callers, rc_queue, rr_spill, out_columns, desired, run_no,
                 prev_out>>

\* allocate called once more with the same arguments; the day it reads from
\* the clock is whatever day the second call runs on
Rerun ==
  /\ UNCHANGED <<pool_vars, split_vars, aux_vars>>
  /\ pc = "done"
  /\ run_no = 1
  /\ run_no' = 2
  /\ prev_out' = out
  /\ today' \in Days
  /\ per_source' = [src \in AllSources |-> <<>>]
  /\ quotas' = <<>>
  /\ remaining_capacity' = <<>>
  /\ assigned_rows' = <<>>
  /\ src_i' = 0
  /\ rr_callers' = <<>>
  /\ rc_queue' = <<>>
  /\ rr_spill' = <<>>
  /\ out' = <<>>
  /\ out_columns' = {}
  /\ counts' = <<>>
  /\ desired' = <<>>
  /\ pc' = "start"
  /\ UNCHANGED arguments

Next ==
  \/ AllocEntry
  \/ PrimarySource
  \/ PrimaryOffer
  \/ PrimaryExit
  \/ SpillSetup
  \/ SpillOffer
  \/ SpillExit
  \/ BuildOutput
  \/ BalanceRound
  \/ Rerun

Spec == Init /\ [][Next]_vars

\* allocate is sequential code: whenever it can take a step it takes it
FairSpec == Spec /\ WF_vars(Next)

\* ------------------------------------------------------------ pool builder
\* the rows a frame with the given columns can hold; a field of a column the
\* frame lacks is never read and is kept empty
Candidate(cols) ==
  [phone : IF "phone" \in cols THEN RawPhones ELSE {<<>>},
   last_login_date : IF "last_login_date" \in cols THEN LoginDates ELSE {NaT}]

\* no allocation is running
AllocIdle ==
  /\ candidates = <<>>
  /\ caller_ids = <<>>
  /\ per_caller_target = 0
  /\ source_mix = <<>>
  /\ today = "2024-05-01"
  /\ per_source = [src \in AllSources |-> <<>>]
  /\ quotas = <<>>
  /\ remaining_capacity = <<>>
  /\ assigned_rows = <<>>
  /\ src_i = 0
  /\ rr_callers = <<>>
  /\ rc_queue = <<>>
  /\ rr_spill = <<>>
  /\ out = <<>>
  /\ out_columns = {}
  /\ counts = <<>>
  /\ desired = <<>>
  /\ pc = "off"
  /\ run_no = 1
  /\ prev_out = <<>>

PoolInit ==
  /\ AllocIdle
  /\ SplitIdle
  /\ AuxIdle
  /\ builder \in Builders
  /\ df_columns \in ColumnSets
  /\ df_all \in SeqsUpTo(Candidate(df_columns), MaxCand)
  /\ asof \in AsOfDays
  /\ windows \in RuleLists
  /\ target_rows \in 0..MaxTargetRows
  /\ apply_all_filters \in (IF builder = "build_candidate_pool" THEN FilterSet ELSE {{}})
  /\ pool = <<>>
  /\ pool_columns = {}
  /\ pool_error = None
  /\ seen_phones = {}
  /\ rule_i = 0
  /\ ppc = "start"

\* only a negative target_rows returns at once
PoolEarlyReturnNegativeOnly ==
  \/ target_rows < 0
  \/ builder = "build_candidate_pool" /\ (df_all = <<>> \/ windows = <<>>)

\* pool.py 79, requery.py 61: the inputs that return an empty pool at once
PoolEarlyReturn ==
  \/ target_rows <= 0
  \/ builder = "build_candidate_pool" /\ (df_all = <<>> \/ windows = <<>>)

\* only last_login_date is required
MissingColumnsPhoneUnchecked(cols) == {"last_login_date"} \ cols

\* _require_columns: missing = [c for c in cols if c not in df.columns]
MissingColumns(cols) == RequiredColumns \ cols

\* pool.py 79-85, requery.py 61-67: the early return of an empty pool, the
\* KeyError of _require_columns, else the empty accumulators
PoolEntry ==
  /\ ppc = "start"
  /\ IF PoolEarlyReturn
     THEN /\ ppc' = "done"
          /\ pool_columns' = df_columns \cup {"window_label"}
          /\ pool_error' = None
     ELSE IF MissingColumns(df_columns) # {}
          THEN /\ ppc' = "raised"
               /\ pool_columns' = {}
               /\ pool_error' = "KeyError"
          ELSE /\ ppc' = "rules"
               /\ pool_columns' = df_columns \cup {"window_label"}
               /\ pool_error' = None
  /\ pool' = <<>>
  /\ seen_phones' = {}
  /\ rule_i' = 1
  /\ UNCHANGED <<pool_inputs, alloc_vars, split_vars, aux_vars>>

\* the rules re-sorted by their priority field
RulesByPriority(ws) == Sorted(ws, [r \in Range(ws) |-> r.priority])

\* for rule in windows: the rules in the order the loop takes them
RulesInOrder(ws) == ws

WindowSlice(rule) == FilterByWindowRule(df_all, asof, rule)

\* requery.py 76-79: the eligibility gate on the window slice
Gated(rule) ==
  IF builder = "build_candidate_pool"
  THEN ApplyAllFilters(WindowSlice(rule), apply_all_filters)
  ELSE WindowSlice(rule)

\* a window whose gated slice has a single row is passed over as well
SkippedSingleRow(rule) ==
  /\ builder = "build_candidate_pool"
  /\ Len(Gated(rule)) <= 1

\* requery.py 71-79: "continue" on an empty slice or an empty gated slice
Skipped(rule) ==
  /\ builder = "build_candidate_pool"
  /\ (WindowSlice(rule) = <<>> \/ Gated(rule) = <<>>)

\* the rows one turn of the loop appends: window slice, gate, dedupe
Survivors(rule) == KeepUnseen(Gated(rule), seen_phones)

\* the phones of the window slice are recorded before the gate is applied
NewlySeenBeforeGate(rule) ==
  {NormPhone(r.phone) : r \in Range(KeepUnseen(WindowSlice(rule), seen_phones))}

\* seen_phones.update(phones_norm[keep_mask].tolist())
NewlySeen(rule) == {NormPhone(r.phone) : r \in Range(Survivors(rule))}

\* the loop breaks one row early
ReachedTargetEarly(n, target) == n >= target - 1

\* if len(pool) >= target_rows: break
ReachedTarget(n, target) == n >= target

\* pool.py 87-100, requery.py 69-89: one turn of "for rule in windows"
PoolRule ==
  /\ ppc = "rules"
  /\ rule_i <= Len(windows)
  /\ LET rule == RulesInOrder(windows)[rule_i]
     IN IF Skipped(rule)
        THEN /\ rule_i' = rule_i + 1
             /\ UNCHANGED <<pool, seen_phones, ppc>>
        ELSE /\ pool' = pool \o Survivors(rule)
             /\ seen_phones' = seen_phones \cup NewlySeen(rule)
             /\ IF ReachedTarget(Len(pool'), target_rows)
                THEN ppc' = "trim" /\ rule_i' = rule_i
                ELSE ppc' = ppc /\ rule_i' = rule_i + 1
  /\ UNCHANGED <<pool_inputs, pool_columns, pool_error, alloc_vars, split_vars, aux_vars>>

\* pool.py 102-106, requery.py 91-94: trim to target_rows and return
PoolTrim ==
  /\ \/ ppc = "trim"
     \/ ppc = "rules" /\ rule_i > Len(windows)
  /\ pool' = IF Len(pool) > target_rows THEN HeadRows(pool, target_rows) ELSE pool
  /\ ppc' = "done"
  /\ UNCHANGED <<pool_inputs, pool_columns, pool_error, alloc_vars, split_vars,
                 aux_vars, seen_phones, rule_i>>

PoolNext ==
  \/ PoolEntry
  \/ PoolRule
  \/ PoolTrim

PoolSpec == PoolInit /\ [][PoolNext]_vars

\* ------------------------------------------------------ _fair_round_split
WeightVals == -1..MaxWeight

\* weight maps: every order of every non-empty set of keys, and the empty map
WeightMaps ==
  {m \in SeqsUpTo([k : AllSources, w : WeightVals], Cardinality(AllSources)) :
     \A i, j \in DOMAIN m : i # j => m[i].k # m[j].k}

SplitInit ==
  /\ AllocIdle
  /\ PoolIdle
  /\ AuxIdle
  /\ split_total \in -1..MaxTotal
  /\ split_weights \in WeightMaps
  /\ split_result = <<>>
  /\ spc = "start"

SplitCall ==
  /\ spc = "start"
  /\ split_result' = FairRoundSplit(split_total, split_weights)
  /\ spc' = "done"
  /\ UNCHANGED <<split_total, split_weights, alloc_vars, pool_vars, aux_vars>>

SplitNext == SplitCall

SplitSpec == SplitInit /\ [][SplitNext]_vars

\* ------------------------------------ filter_by_window_rule on its own
\* last_login_date values: a day number, or a day number and an hour of
\* that day; as-of day 100 gives -1, -1 (-13 hours), 0, 2, 2 (59 hours), 3, 5,
\* 8, 15, 90 days
FilterLogins ==
  {NaT, <<101>>, <<100, 13>>, <<100>>, <<98>>, <<97, 13>>, <<97>>, <<95>>, <<92>>,
   <<85>>, <<10>>}

FilterRules ==
  [label : {"W"}, day_min : {0, 3, 15}, day_max : {<<>>, <<3>>, <<5>>, <<15>>},
   priority : {1}]

FilterInit ==
  /\ AllocIdle
  /\ PoolIdle
  /\ SplitIdle
  /\ NormIdle
  /\ FlowIdle
  /\ LoaderIdle
  /\ f_df \in SeqsUpTo([phone : {PhoneB}, last_login_date : FilterLogins], MaxFilterRows)
  /\ f_asof \in AsOfDays
  /\ f_rule \in FilterRules
  /\ f_out = <<>>
  /\ fpc = "start"

FilterCall ==
  /\ fpc = "start"
  /\ f_out' = FilterByWindowRule(f_df, f_asof, f_rule)
  /\ fpc' = "done"
  /\ UNCHANGED <<f_df, f_asof, f_rule, alloc_vars, pool_vars, split_vars, norm_vars,
                 flow_vars, loader_vars>>

FilterNext == FilterCall

FilterSpec == FilterInit /\ [][FilterNext]_vars

\* ------------------------------------------- _norm_phone on its own
\* characters of a raw phone value: two digits and one non-digit
PhoneChars == {"0", "8", "-"}

\* requery.py: return ("0" + d) if len(d) == 9 else d
NormPhoneRequery(raw) ==
  LET d == SelectSeq(raw, LAMBDA ch : ch \in Digits)
  IN IF Len(d) = 9 THEN <<"0">> \o d ELSE d

\* utils/merge.py: return ("0" + d) if len(d) == 9 else d
NormPhoneMerge(raw) ==
  LET d == SelectSeq(raw, LAMBDA ch : ch \in Digits)
  IN IF Len(d) = 9 THEN <<"0">> \o d ELSE d

NormInit ==
  /\ AllocIdle
  /\ PoolIdle
  /\ SplitIdle
  /\ FilterIdle
  /\ FlowIdle
  /\ LoaderIdle
  /\ n_raw \in SeqsUpTo(PhoneChars, MaxPhoneLen)
  /\ n_out = <<>>
  /\ npc = "start"

NormCall ==
  /\ npc = "start"
  /\ n_out' = [pool |-> NormPhone(n_raw),
               requery |-> NormPhoneRequery(n_raw),
               merge |-> NormPhoneMerge(n_raw)]
  /\ npc' = "done"
  /\ UNCHANGED <<n_raw, alloc_vars, pool_vars, split_vars, filter_vars, flow_vars,
                 loader_vars>>

NormNext == NormCall

NormSpec == NormInit /\ [][NormNext]_vars

\* ------------------------------------- scheduler/runner.py, the flow
\* settings.PER_CALLER_TARGET: 80 in settings.py, or the environment
\* variable of that name; scaled down
PER_CALLER_TARGET == 1

\* the columns load_all_candidates delivers: all, or all but last_login_date
FlowColumnSets ==
  {{"username", "phone", "last_login_date"}, {"username", "phone"}}

\* candidate rows of one source; u1 and u2 share a normalized phone
FlowRowKinds ==
  {[username |-> "u1", phone |-> PhoneA9, last_login_date |-> <<95>>],
   [username |-> "u2", phone |-> PhoneA10, last_login_date |-> <<80>>],
   [username |-> "u3", phone |-> PhoneB, last_login_date |-> <<95>>],
   [username |-> "u4", phone |-> PhoneB, last_login_date |-> NaT]}

\* a frame without the last_login_date column holds no such value
FlowRows(cols) ==
  IF "last_login_date" \in cols THEN FlowRowKinds
  ELSE {[r EXCEPT !.last_login_date = NaT] : r \in FlowRowKinds}

\* what load_sources_and_mix can return: the keys of SOURCES and SOURCE_MIX
\* (sources_loader.py 52-53, 106-129: the mix covers enabled sources only
\* and is empty without a positive weight)
FlowConfigs ==
  {[sources |-> {}, mix |-> <<>>],
   [sources |-> {"A"}, mix |-> <<>>],
   [sources |-> {"A"}, mix |-> <<[k |-> "A", w |-> 1]>>],
   [sources |-> {"A", "B"}, mix |-> <<[k |-> "A", w |-> 7], [k |-> "B", w |-> 3]>>]}

\* blacklist triples (source_key, username, normalized phone), the source
\* being the one source of the rows
FlowBlacklists == {{}, {<<"u1", NormPhone(PhoneA9)>>}}

\* usernames blocked by the compile-tab and redeemed-today filters
FlowBlocked == {{}, {"u3"}}

\* lines 227-252: the strict-triple blacklist on pool_raw
ApplyBlacklist(df, triples) ==
  SelectSeq(df, LAMBDA r : <<r.username, NormPhone(r.phone)>> \notin triples)

\* _apply_legacy_filters: df[~df["Username"].isin(block)] for each block
ApplyLegacyFilters(df, blocked) == SelectSeq(df, LAMBDA r : r.username \notin blocked)

\* pool.py 87-100 as a function: the loop of build_windowed_pool
RECURSIVE PoolLoop(_, _, _, _, _, _)
PoolLoop(df, asof_day, ws, target, pl, seen) ==
  IF ws = <<>> THEN pl
  ELSE LET kept == KeepUnseen(FilterByWindowRule(df, asof_day, Head(ws)), seen)
           pl2 == pl \o kept
           seen2 == seen \cup {NormPhone(r.phone) : r \in Range(kept)}
       IN IF ReachedTarget(Len(pl2), target) THEN pl2
          ELSE PoolLoop(df, asof_day, Tail(ws), target, pl2, seen2)

\* pool.py 64-106 as a function, for a frame that has the required columns
BuildWindowedPool(df, asof_day, ws, target) ==
  IF target <= 0 THEN <<>>
  ELSE LET pl == PoolLoop(df, asof_day, ws, target, <<>>, {})
       IN IF Len(pl) > target THEN HeadRows(pl, target) ELSE pl

FlowInit ==
  /\ AllocIdle
  /\ PoolIdle
  /\ SplitIdle
  /\ FilterIdle
  /\ NormIdle
  /\ LoaderIdle
  /\ \E cfg \in FlowConfigs : fl_sources = cfg.sources /\ fl_mix = cfg.mix
  /\ fl_callers \in RosterSet
  /\ fl_blacklist \in FlowBlacklists
  /\ fl_blocked \in FlowBlocked
  /\ fl_windows \in RuleLists
  /\ fl_columns \in FlowColumnSets
  /\ fl_raw \in SeqsUpTo(FlowRows(fl_columns), MaxFlowRows)
  /\ fl_pool = <<>>
  /\ fl_alloc = <<>>
  /\ fl_result = None
  /\ fl_pc = "start"

\* lines 209-221: load the configuration; stop when a part of it is empty
FlowEntry ==
  /\ fl_pc = "start"
  /\ IF fl_sources = {} \/ fl_mix = <<>> \/ fl_callers = <<>>
     THEN fl_result' = "empty frame" /\ fl_pc' = "done"
     ELSE fl_result' = fl_result /\ fl_pc' = "candidates"
  /\ UNCHANGED <<flow_inputs, fl_pool, fl_alloc, alloc_vars, pool_vars, split_vars,
                 filter_vars, norm_vars, loader_vars>>

\* lines 226-267: candidates, blacklist, legacy filters
FlowCandidates ==
  /\ fl_pc = "candidates"
  /\ LET pool_raw == ApplyBlacklist(fl_raw, fl_blacklist)
         pool_filtered == ApplyLegacyFilters(pool_raw, fl_blocked)
     IN IF pool_raw = <<>> \/ pool_filtered = <<>>
        THEN /\ fl_result' = "empty frame"
             /\ fl_pc' = "done"
             /\ fl_pool' = fl_pool
        ELSE /\ fl_pool' = pool_filtered
             /\ fl_pc' = "windows"
             /\ fl_result' = fl_result
  /\ UNCHANGED <<flow_inputs, fl_alloc, alloc_vars, pool_vars, split_vars,
                 filter_vars, norm_vars, loader_vars>>

\* line 270
FlowTargetRows == Len(fl_callers) * PER_CALLER_TARGET

\* lines 273-284: window filtering is skipped without rules or columns
WindowingSkipped ==
  fl_windows = <<>> \/ ~({"last_login_date", "phone"} \subseteq fl_columns)

\* lines 269-296: the windowed pool, or the filtered pool as it is
FlowWindows ==
  /\ fl_pc = "windows"
  /\ LET pool_built ==
           IF WindowingSkipped THEN fl_pool
           ELSE BuildWindowedPool(fl_pool, 100, fl_windows, FlowTargetRows)
     IN /\ fl_pool' = pool_built
        /\ IF pool_built = <<>>
           THEN fl_result' = "empty frame" /\ fl_pc' = "done"
           ELSE fl_result' = fl_result /\ fl_pc' = "allocate"
  /\ UNCHANGED <<flow_inputs, fl_alloc, alloc_vars, pool_vars, split_vars,
                 filter_vars, norm_vars, loader_vars>>

\* lines 298-311: the call of allocate
FlowAllocate ==
  /\ fl_pc = "allocate"
  /\ fl_alloc' = [candidates |-> fl_pool, caller_ids |-> fl_callers,
                  per_caller_target |-> PER_CALLER_TARGET, source_mix |-> fl_mix]
  /\ fl_result' = "assigned"
  /\ fl_pc' = "done"
  /\ UNCHANGED <<flow_inputs, fl_pool, alloc_vars, pool_vars, split_vars,
                 filter_vars, norm_vars, loader_vars>>

FlowNext ==
  \/ FlowEntry
  \/ FlowCandidates
  \/ FlowWindows
  \/ FlowAllocate

FlowSpec == FlowInit /\ [][FlowNext]_vars

\* ---------------------------------- config/windows_loader.py, load_windows
\* a cell of the sheet: <<>> empty, <<n>> the text of the integer n, BadCell
\* a text that is not a number
BadCell == <<0, 0>>

SheetRows ==
  [label : {"", "Hot"},
   day_min : {<<>>, <<3>>, <<-1>>},
   day_max : {<<>>, <<2>>, <<5>>},
   priority : {<<>>, <<1>>, <<2>>, BadCell}]

\* _parse_int raises ValueError on a text that is no number and on a
\* negative number
ParseFails(cell) == cell = BadCell \/ (Len(cell) = 1 /\ cell[1] < 0)

\* lines 72-93: the row appends to errors instead of rules
RowError(r) ==
  \/ ParseFails(r.day_min) \/ ParseFails(r.day_max) \/ ParseFails(r.priority)
  \/ r.label = ""
  \/ r.day_min = <<>>
  \/ r.priority = <<>>
  \/ r.day_max # <<>> /\ r.day_max[1] < r.day_min[1]

\* line 95
MakeRule(r) ==
  [label |-> r.label, day_min |-> r.day_min[1], day_max |-> r.day_max,
   priority |-> r.priority[1]]

LoaderInit ==
  /\ AllocIdle
  /\ PoolIdle
  /\ SplitIdle
  /\ FilterIdle
  /\ NormIdle
  /\ FlowIdle
  /\ w_sheet \in SeqsUpTo(SheetRows, MaxSheetRows)
  /\ w_rules = <<>>
  /\ w_error = None
  /\ wpc = "start"

\* lines 64-104
LoadWindows ==
  /\ wpc = "start"
  /\ IF w_sheet = <<>>
     THEN /\ w_error' = "RuntimeError"
          /\ w_rules' = <<>>
          /\ wpc' = "raised"
     ELSE IF \E i \in DOMAIN w_sheet : RowError(w_sheet[i])
          THEN /\ w_error' = "ValueError"
               /\ w_rules' = <<>>
               /\ wpc' = "raised"
          ELSE /\ w_rules' = LET rules == [i \in DOMAIN w_sheet |-> MakeRule(w_sheet[i])]
                             IN Sorted(rules, [r \in Range(rules) |-> r.priority])
               /\ w_error' = None
               /\ wpc' = "done"
  /\ UNCHANGED <<w_sheet, alloc_vars, pool_vars, split_vars, filter_vars, norm_vars,
                 flow_vars>>

LoaderNext == LoadWindows

LoaderSpec == LoaderInit /\ [][LoaderNext]_vars

\* ================================================================== claims

\* ---- C1 (PoolSpec): no two distinct rows of a returned pool have equal
\* normalized phones, whether one window admitted both or two windows did.
C1_NoSharedPhone ==
  ppc = "done" =>
    \A i, j \in DOMAIN pool :
      i # j => NormPhone(pool[i].phone) # NormPhone(pool[j].phone)

\* ---- C2 (Spec): allocate always returns; in particular the spillover loop
\* takes no further turn, and is left, as soon as its queue is empty or every
\* caller's remaining capacity is zero.
C2_SpilloverStops ==
  (pc = "spill" /\ (rc_queue = <<>> \/ AllCapacityUsed(remaining_capacity))) =>
    (ENABLED SpillExit /\ ~ENABLED SpillOffer)

\* the same as a property of whole runs (FairSpec): every call returns
AllocateReturns == <>(pc = "done")

\* ---- C3 (Spec): when allocate has returned, the largest number of rows a
\* roster caller holds exceeds the smallest by at most 1 (a caller without
\* rows holds 0).
RowsHeld(o, c) == Cardinality({i \in DOMAIN o : o[i].caller_id = c})

C3_BalanceBound ==
  pc = "done" =>
    \A a, b \in Range(caller_ids) : RowsHeld(out, a) - RowsHeld(out, b) <= 1

\* the two passes left two callers at least 2 rows apart, and allocate returned
C3_Witness ==
  /\ pc = "done"
  /\ \E a, b \in Range(caller_ids) :
       RowsHeld(TagRows(candidates, assigned_rows), a)
         - RowsHeld(TagRows(candidates, assigned_rows), b) >= 2

\* ---- C4 (SplitSpec): _fair_round_split(total, weights) gives one
\* non-negative integer per key, and the integers sum to total.
SplitKeys == {split_weights[i].k : i \in DOMAIN split_weights}

SplitShaped ==
  /\ DOMAIN split_result = SplitKeys
  /\ \A k \in SplitKeys : split_result[k] \in Nat

C5_NoOverAssignment ==
  pc = "done" =>
    /\ \A i \in DOMAIN out :
         /\ out[i].caller_id \in Range(caller_ids)
         /\ out[i].idx \in DOMAIN candidates
         /\ out[i].source_key = candidates[out[i].idx]
    /\ \A i, j \in DOMAIN out : i # j => out[i].idx # out[j].idx
    /\ \A i, j \in DOMAIN assigned_rows :
         i # j => assigned_rows[i][1] # assigned_rows[j][1]
    /\ Len(out) <= Len(candidates)

\* allocate returned some rows and dropped others
C5_Witness ==
  /\ pc = "done"
  /\ out # <<>>
  /\ Len(out) < Len(candidates)
  /\ Len(caller_ids) >= 2

\* ---- C6 (Spec): allocate called twice with the same arguments returns
\* the same assignment, whatever day each call runs on.
C6_SameOutputOnRerun ==
  (pc = "done" /\ run_no = 2) => out = prev_out

\* ---- C7 (PoolSpec): a returned pool has at most target_rows rows, and no
\* row when target_rows <= 0.
C7_TargetCeiling ==
  ppc = "done" => Len(pool) <= Max(target_rows, 0)

\* a pool returned full, a row admitted by the last rule trimmed away
C7_Witness ==
  /\ ppc = "done"
  /\ target_rows > 0
  /\ Len(pool) = target_rows
  /\ \E p \in seen_phones : \A i \in DOMAIN pool : NormPhone(pool[i].phone) # p

\* ---- C8 (PoolSpec): a returned pool has exactly target_rows rows when
\* there are enough eligible rows.
PassesGate(row) ==
  builder = "build_candidate_pool" => row.phone \notin apply_all_filters

\* rows that match at least one rule and pass the eligibility gate
EligibleRows ==
  {i \in DOMAIN df_all :
     /\ PassesGate(df_all[i])
     /\ \E j \in DOMAIN windows : InWindow(df_all[i], asof, windows[j])}

EligiblePhones == {NormPhone(df_all[i].phone) : i \in EligibleRows}

\* as claimed: enough eligible rows
C8_FullWhenEnoughRows ==
  (ppc = "done" /\ Cardinality(EligibleRows) >= target_rows) =>
    Len(pool) = target_rows

\* as amended: target_rows >= 0 and enough distinct normalized phones among
\* the eligible rows
C8_FullWhenEnoughPhones ==
  (ppc = "done" /\ target_rows >= 0
     /\ Cardinality(EligiblePhones) >= target_rows) =>
    Len(pool) = target_rows

\* a full pool built from eligible rows that share a phone, over two rules
C8_Witness ==
  /\ ppc = "done"
  /\ target_rows > 0
  /\ Cardinality(EligiblePhones) >= target_rows
  /\ Cardinality(EligibleRows) > Cardinality(EligiblePhones)
  /\ rule_i > 1
  /\ Len(pool) = target_rows

\* ---- C9 (PoolSpec): a pool row carries the label of the first rule, in
\* the order of the list as supplied, that its normalized phone matches;
\* so when the phone matches A and B and A precedes B the label is A's,
\* whatever the priority fields say.
PhoneMatches(p, rule) ==
  \E i \in DOMAIN df_all :
    /\ NormPhone(df_all[i].phone) = p
    /\ PassesGate(df_all[i])
    /\ InWindow(df_all[i], asof, rule)

C9_PriorityPrecedence ==
  ppc = "done" =>
    \A i \in DOMAIN pool :
      \E a \in DOMAIN windows :
        /\ pool[i].window_label = windows[a].label
        /\ PhoneMatches(NormPhone(pool[i].phone), windows[a])
        /\ \A b \in 1..(a - 1) : ~PhoneMatches(NormPhone(pool[i].phone), windows[b])

\* a phone matching both rules of a list that is not in priority order, in
\* the pool under the label of the first rule of the list
C9_Witness ==
  /\ ppc = "done"
  /\ Len(windows) = 2
  /\ windows[1].priority > windows[2].priority
  /\ \E i \in DOMAIN pool :
       /\ pool[i].window_label = windows[1].label
       /\ PhoneMatches(NormPhone(pool[i].phone), windows[1])
       /\ PhoneMatches(NormPhone(pool[i].phone), windows[2])

\* ---- C10 (Spec): every pool row the primary pass left unassigned is in
\* the spillover queue, rows of a source outside source_mix included.
Assigned(i) == \E j \in DOMAIN assigned_rows : assigned_rows[j][1] = i

C10_LeftoversQueued ==
  pc = "spill" =>
    \A i \in DOMAIN candidates : ~Assigned(i) => i \in Range(rc_queue)

\* ---- C11 (Spec): each roster caller holds at most per_caller_target rows:
\* among the rows the primary and spillover passes have handed out so far,
\* and in the assignment during and after the balancing pass.
RowsGiven(rows, c) == Cardinality({i \in DOMAIN rows : rows[i][2] = c})

C11_PerCallerCeiling ==
  \A c \in Range(caller_ids) :
    /\ RowsGiven(assigned_rows, c) <= Max(per_caller_target, 0)
    /\ pc \in {"balance", "done"} => RowsHeld(out, c) <= per_caller_target

\* allocate returned with a caller at the ceiling, holding more rows of one
\* source than its quota for it: the spillover pass filled it up and stopped
C11_Witness ==
  /\ pc = "done"
  /\ per_caller_target > 0
  /\ \E c \in Range(caller_ids) \cap DOMAIN quotas :
       /\ RowsHeld(out, c) = per_caller_target
       /\ RowsGiven(assigned_rows, c) = per_caller_target
       /\ \E s \in DOMAIN quotas[c] :
            Cardinality({i \in DOMAIN out :
                           out[i].caller_id = c /\ out[i].source_key = s})
              > QuotasPerCaller(caller_ids, per_caller_target, source_mix)[c][s]

\* ---- C12 (Spec): when every pool row's source is a key of the mix, the mix
\* has positive total weight and the pool has at most roster size times
\* per_caller_target rows, the spillover pass never stalls and the returned
\* assignment holds every pool row; with exactly that many rows, every
\* caller holds exactly per_caller_target.
PoolFitsRoster ==
  /\ \A i \in DOMAIN candidates : candidates[i] \in Range(MixKeys(source_mix))
  /\ SumOver([k \in Range(MixKeys(source_mix)) |-> MixWeight(source_mix, k)],
             Range(MixKeys(source_mix))) > 0
  /\ Len(candidates) <= Len(caller_ids) * per_caller_target

C12_EveryRowAssigned ==
  PoolFitsRoster =>
    /\ pc = "spill" => (rc_queue = <<>> \/ ~AllCapacityUsed(remaining_capacity))
    /\ pc = "done" =>
         /\ {out[i].idx : i \in DOMAIN out} = DOMAIN candidates
         /\ Len(out) = Len(candidates)
         /\ Len(candidates) = Len(caller_ids) * per_caller_target =>
              \A c \in Range(caller_ids) : RowsHeld(out, c) = per_caller_target

\* allocate returned a pool of exactly roster size times per_caller_target
\* rows, of more than one source, to a roster of at least two callers
C12_Witness ==
  /\ pc = "done"
  /\ PoolFitsRoster
  /\ Len(caller_ids) >= 2
  /\ Len(candidates) = Len(caller_ids) * per_caller_target
  /\ Cardinality(Range(candidates)) >= 2
  /\ \A c \in Range(caller_ids) : RowsHeld(out, c) = per_caller_target

\* ---- C13 (Spec): with a non-empty mix whose weights are all <= 0, allocate
\* on a non-empty pool and a non-empty roster returns, and what it returns
\* is the empty assignment: the spillover loop can be left whenever it is
\* reached, and no row is assigned.
ZeroWeightMix ==
  /\ source_mix # <<>>
  /\ \A i \in DOMAIN source_mix : source_mix[i].w <= 0

C13_ZeroMixReturnsEmpty ==
  (ZeroWeightMix /\ candidates # <<>> /\ caller_ids # <<>>) =>
    /\ assigned_rows = <<>>
    /\ pc = "spill" => ENABLED SpillExit
    /\ pc = "done" => out = <<>>

\* ---- C14 (Spec): with an empty pool, an empty roster, per_caller_target
\* <= 0 or an empty source_mix, allocate returns at its first step, and
\* what it returns has no rows and the input columns plus caller_id.
C14_TrivialInputsEmpty ==
  (\/ candidates = <<>>
   \/ caller_ids = <<>>
   \/ per_caller_target <= 0
   \/ source_mix = <<>>) =>
    /\ pc \in {"start", "done"}
    /\ pc = "done" =>
         /\ out = <<>>
         /\ out_columns = CandidateColumns \cup {"caller_id"}

\* allocate returned for per_caller_target = 0 with pool, roster and mix
\* all non-empty
C14_Witness ==
  /\ pc = "done"
  /\ per_caller_target <= 0
  /\ candidates # <<>>
  /\ caller_ids # <<>>
  /\ source_mix # <<>>
  /\ out = <<>>

C19_MissingFieldAlwaysFails ==
  ~(RequiredColumns \subseteq df_columns) => ppc \in {"start", "raised"}

\* ---- C19 (PoolSpec), amended: the builder fails on a frame lacking a
\* required column, before any rule is evaluated and returning no pool,
\* unless it returns early: target_rows > 0 and, for build_candidate_pool,
\* a non-empty frame and a non-empty rule list.  The error is the KeyError
\* of _require_columns.
C19_MissingFieldFails ==
  (/\ ~(RequiredColumns \subseteq df_columns)
   /\ target_rows > 0
   /\ builder = "build_candidate_pool" => (df_all # <<>> /\ windows # <<>>)) =>
    /\ ppc \in {"start", "raised"}
    /\ ppc = "raised" =>
         /\ pool_error = "KeyError"
         /\ pool = <<>>
         /\ pool_columns = {}

\* the builder raised on a non-empty frame that has last_login_date but no
\* phone column, with rules to evaluate
C19_Witness ==
  /\ ppc = "raised"
  /\ "phone" \notin df_columns
  /\ "last_login_date" \in df_columns
  /\ df_all # <<>>
  /\ windows # <<>>

\* ---- C16 (Spec): the balancing pass changes nothing but caller_id values:
\* during and after it the assignment holds the rows the two passes handed
\* out, as many of them, in the same order and with the same other fields.
StripCaller(o) ==
  [i \in DOMAIN o |-> [idx |-> o[i].idx, source_key |-> o[i].source_key]]

C16_BalanceKeepsRows ==
  pc \in {"balance", "done"} =>
    StripCaller(out) = StripCaller(TagRows(candidates, assigned_rows))

\* allocate returned after the balancing pass gave a row to another caller
C16_Witness ==
  /\ pc = "done"
  /\ \E i \in DOMAIN out :
       out[i].caller_id # TagRows(candidates, assigned_rows)[i].caller_id

\* ---- C17 (FilterSpec): filter_by_window_rule returns, in their order and
\* tagged with the rule's label, exactly the rows whose last_login_date is
\* not null and whose whole days since then are >= day_min and, when day_max
\* is given, <= day_max; a row with a null date is never returned.
HoursSince(r) ==
  f_asof * 24 - (r.last_login_date[1] * 24
                 + (IF Len(r.last_login_date) > 1 THEN r.last_login_date[2] ELSE 0))

WholeDaysSince(r) ==
  CHOOSE n \in -400..400 : n * 24 <= HoursSince(r) /\ HoursSince(r) < (n + 1) * 24

ShouldMatch(r) ==
  /\ r.last_login_date # NaT
  /\ WholeDaysSince(r) >= f_rule.day_min
  /\ f_rule.day_max = <<>> \/ WholeDaysSince(r) <= f_rule.day_max[1]

C17_WindowMatchExact ==
  fpc = "done" =>
    LET want == SelectSeq(f_df, ShouldMatch)
    IN /\ Len(f_out) = Len(want)
       /\ \A i \in DOMAIN want :
            /\ f_out[i].phone = want[i].phone
            /\ f_out[i].last_login_date = want[i].last_login_date
            /\ f_out[i].window_label = f_rule.label

\* the open-ended rule day_min = 15 was applied to a row 90 days back and a
\* row with a null date: the first is returned, the second is not
C17_Witness ==
  /\ fpc = "done"
  /\ f_rule.day_min = 15
  /\ f_rule.day_max = <<>>
  /\ \E i, j \in DOMAIN f_df :
       /\ f_df[i].last_login_date = <<f_asof - 90>>
       /\ f_df[j].last_login_date = NaT
  /\ Len(f_out) = 1
  /\ f_out[1].last_login_date = <<f_asof - 90>>

\* ---- C18 (NormSpec): _norm_phone returns the digit characters of its
\* argument in their order, with one "0" put in front exactly when there are
\* nine of them; the copies in pool.py, requery.py and utils/merge.py return
\* the same value.
RECURSIVE DigitsOf(_)
DigitsOf(raw) ==
  IF raw = <<>> THEN <<>>
  ELSE IF Head(raw) \in Digits THEN <<Head(raw)>> \o DigitsOf(Tail(raw))
       ELSE DigitsOf(Tail(raw))

C18_NormPhoneDigits ==
  npc = "done" =>
    LET want == IF Len(DigitsOf(n_raw)) = 9 THEN <<"0">> \o DigitsOf(n_raw)
                ELSE DigitsOf(n_raw)
    IN /\ n_out.pool = want
       /\ n_out.requery = want
       /\ n_out.merge = want

\* a raw value of nine digits and a separator was normalized to ten digits
C18_Witness ==
  /\ npc = "done"
  /\ Len(n_raw) = 10
  /\ Len(DigitsOf(n_raw)) = 9
  /\ n_raw[1] = "8"
  /\ Len(n_out.pool) = 10
  /\ n_out.pool[1] = "0"

\* ---- C20 (FlowSpec): a run with no window rules, no roster or no source
\* mix fails: run_assignment_flow neither goes on past its entry nor returns
\* a result.
C20_EmptyConfigFails ==
  (fl_windows = <<>> \/ fl_callers = <<>> \/ fl_mix = <<>>) =>
    /\ fl_pc \in {"start", "raised"}
    /\ fl_result \notin {"empty frame", "assigned"}

\* the second half of C20 (LoaderSpec): load_windows returns no rule at all,
\* and raises, when a row of the sheet has day_max < day_min
LoadWindowsRejectsBadRange ==
  (/\ wpc # "start"
   /\ \E i \in DOMAIN w_sheet :
        /\ Len(w_sheet[i].day_min) = 1
        /\ Len(w_sheet[i].day_max) = 1
        /\ w_sheet[i].day_max[1] < w_sheet[i].day_min[1]) =>
    (wpc = "raised" /\ w_rules = <<>> /\ w_error # None)

\* ---- C21 (PoolSpec): the loop over the rules goes on only while the pool
\* is below target_rows and ends at the first rule whose batch brings it to
\* target_rows; the returned pool is the first target_rows rows of what the
\* rules admit in accumulation order, so rows of earlier batches are kept
\* and only the tail of the last batch is cut.
RECURSIVE Accumulated(_, _, _)
Accumulated(ws, pl, seen) ==
  IF ws = <<>> THEN pl
  ELSE LET batch == KeepUnseen(ApplyAllFilters(FilterByWindowRule(df_all, asof, Head(ws)),
                                               apply_all_filters), seen)
       IN Accumulated(Tail(ws), pl \o batch,
                      seen \cup {NormPhone(batch[i].phone) : i \in DOMAIN batch})

AccumulatedUpTo(j) == Accumulated(SubSeq(windows, 1, j), <<>>, {})

C22_SpillQueueOrder ==
  pc = "spill" =>
    \A i, j \in DOMAIN rc_queue :
      i < j =>
        LET wi == MixWeight(source_mix, candidates[rc_queue[i]])
            wj == MixWeight(source_mix, candidates[rc_queue[j]])
        IN wi > wj \/ (wi = wj /\ rc_queue[i] < rc_queue[j])

\* ---------------------------------------------------------------- C23
\* the key -> weight map of a weight sequence, clipped at 0, and its sum
SplitClipped == [k \in SplitKeys |-> Max(0, MixWeight(split_weights, k))]

SplitWeightSum == SumValues(SplitClipped)

\* floor(total * normalized_weight), found by search rather than by division
SplitFloor(k) ==
  CHOOSE q \in 0..split_total :
    /\ q * SplitWeightSum <= split_total * SplitClipped[k]
    /\ split_total * SplitClipped[k] < (q + 1) * SplitWeightSum

\* the fractional remainder of k's share, in units of 1 / SplitWeightSum
SplitFraction(k) == split_total * SplitClipped[k] - SplitFloor(k) * SplitWeightSum

SplitExtras == {k \in SplitKeys : split_result[k] = SplitFloor(k) + 1}

\* the same weights listed in another order
SplitReorderings ==
  LET n == Len(split_weights)
  IN {[i \in 1..n |-> split_weights[p[i]]] :
        p \in {q \in [1..n -> 1..n] : \A i, j \in 1..n : i # j => q[i] # q[j]}}

\* C23: for a total >= 0 and a weight map with a positive weight, every key
\* gets the floor of its share or that floor plus one; exactly
\* total - sum_of_floors keys get the extra unit, and no key that went without
\* has a larger fractional remainder, or an equal one and an earlier name, than
\* a key that got it; listing the weights in another order gives the same
\* result; and a key whose weight is <= 0 gets 0, whatever the other weights.
C23_LargestRemainder ==
  spc = "done" =>
    /\ \A i \in DOMAIN split_weights :
         split_weights[i].w <= 0 => split_result[split_weights[i].k] = 0
    /\ (split_total >= 0 /\ SplitWeightSum > 0) =>
         /\ \A k \in SplitKeys :
              split_result[k] \in {SplitFloor(k), SplitFloor(k) + 1}
         /\ Cardinality(SplitExtras) =
              split_total - SumValues([k \in SplitKeys |-> SplitFloor(k)])
         /\ \A k \in SplitExtras : \A j \in SplitKeys \ SplitExtras :
              \/ SplitFraction(k) > SplitFraction(j)
              \/ SplitFraction(k) = SplitFraction(j) /\ SrcRank[k] < SrcRank[j]
         /\ \A m \in SplitReorderings :
              FairRoundSplit(split_total, m) = split_result

\* a split whose shortfall is smaller than the number of keys tied on the
\* largest remainder, in a map that lists the later name first and also holds
\* a key of weight <= 0
C23_Witness ==
  /\ spc = "done"
  /\ split_total >= 1
  /\ SplitWeightSum > 0
  /\ Len(split_weights) = 3
  /\ SrcRank[split_weights[1].k] > SrcRank[split_weights[2].k]
  /\ \E i \in DOMAIN split_weights : split_weights[i].w <= 0
  /\ \E k \in SplitExtras : \E j \in SplitKeys \ SplitExtras :
       SplitFraction(k) = SplitFraction(j) /\ SplitFraction(k) > 0

\* ---------------------------------------------------------------- C24
\* the rows of source s handed to caller c so far
SourceRowsGiven(c, s) ==
  Cardinality({i \in DOMAIN assigned_rows :
                 assigned_rows[i][2] = c /\ candidates[assigned_rows[i][1]] = s})

\* C24: a step of the primary pass that assigns a row of the current source to
\* caller c starts from a state where c's quota for that source and c's
\* remaining capacity are both > 0; and all through the primary pass, its end
\* included, every caller holds at most
\* _fair_round_split(per_caller_target, source_mix)[s] rows of every source s.
C24_PrimaryWithinQuota ==
  /\ [][(pc = "primary_rr" /\ assigned_rows' # assigned_rows) =>
          LET c == assigned_rows'[Len(assigned_rows')][2]
          IN /\ candidates[assigned_rows'[Len(assigned_rows')][1]] = CurSrc
             /\ quotas[c][CurSrc] > 0
             /\ remaining_capacity[c] > 0]_vars
  /\ [](pc \in {"primary", "primary_rr"} =>
          \A c \in Range(caller_ids) : \A i \in DOMAIN source_mix :
            SourceRowsGiven(c, source_mix[i].k) <=
              FairRoundSplit(per_caller_target, source_mix)[source_mix[i].k])

\* the primary pass is over, a caller holds its full quota of a source, and a
\* row of that source was left for the spillover
C24_Witness ==
  /\ pc = "primary"
  /\ src_i > Len(source_mix)
  /\ \E c \in Range(caller_ids) : \E i \in DOMAIN source_mix :
       LET s == source_mix[i].k
       IN /\ FairRoundSplit(per_caller_target, source_mix)[s] >= 1
          /\ SourceRowsGiven(c, s) = FairRoundSplit(per_caller_target, source_mix)[s]
          /\ per_source[s] # <<>>

\* ---------------------------------------------------------------- C25
\* C25: when allocate returns a non-empty frame of total rows for a roster of
\* n callers, exactly total mod n callers hold total // n + 1 rows, the others
\* hold total // n, and the callers with the extra row are the first
\* total mod n callers of the roster sorted by date-seeded hash.
C25_BalancedCounts ==
  (pc = "done" /\ out # <<>>) =>
    LET n == Len(caller_ids)
        total == Len(out)
        order == TargetOrder(caller_ids, today)
        extra == {order[i] : i \in 1..(total % n)}
    IN /\ Cardinality(extra) = total % n
       /\ \A c \in extra : RowsHeld(out, c) = (total \div n) + 1
       /\ \A c \in Range(caller_ids) \ extra : RowsHeld(out, c) = total \div n

\* allocate returned after the balancing pass moved a row, some callers hold
\* the extra row and some do not, and the first caller of the roster is not
\* the first of the hash order
C25_Witness ==
  /\ pc = "done"
  /\ out # <<>>
  /\ Len(out) % Len(caller_ids) # 0
  /\ TargetOrder(caller_ids, today)[1] # caller_ids[1]
  /\ \E c \in Range(caller_ids) : RowsHeld(out, c) # RowsGiven(assigned_rows, c)

\* ---------------------------------------------------------------- C26
\* the normalized phones of the rows admitted to the pool so far
AdmittedPhones == {NormPhone(r.phone) : r \in Range(pool)}

\* the rows of a window that pass the eligibility predicate
EligibleMatch(rule) ==
  SelectSeq(FilterByWindowRule(df_all, asof, rule),
            LAMBDA r : r.phone \notin apply_all_filters)

\* C26: in build_candidate_pool, while the rules are walked, the seen-set is
\* exactly the set of normalized phones of the rows admitted to the pool (rows
\* that passed the predicate and the dedup step) and no admitted row fails the
\* predicate; and one turn of the loop appends the window's eligible match
\* minus exactly the rows whose normalized phone was admitted by an earlier
\* rule.
C26_GateThenDedup ==
  /\ []((builder = "build_candidate_pool" /\ ppc \in {"rules", "trim"}) =>
          /\ seen_phones = AdmittedPhones
          /\ \A i \in DOMAIN pool : pool[i].phone \notin apply_all_filters)
  /\ [][(builder = "build_candidate_pool" /\ ppc = "rules"
           /\ rule_i <= Len(windows)) =>
          pool' = pool \o SelectSeq(EligibleMatch(windows[rule_i]),
                                    LAMBDA r : NormPhone(r.phone) \notin AdmittedPhones)]_vars

\* build_candidate_pool returned; a row of the first window failed the
\* predicate and a row with the same normalized phone was admitted by the
\* second rule; and a row eligible under the second rule was removed because
\* the first rule had admitted its phone
C26_Witness ==
  /\ builder = "build_candidate_pool"
  /\ ppc = "done"
  /\ Len(windows) = 2
  /\ \E r \in Range(FilterByWindowRule(df_all, asof, windows[1])) :
       /\ r.phone \in apply_all_filters
       /\ \E i \in DOMAIN pool :
            /\ pool[i].window_label = windows[2].label
            /\ NormPhone(pool[i].phone) = NormPhone(r.phone)
  /\ \E r \in Range(EligibleMatch(windows[2])) : \E i \in DOMAIN pool :
       /\ pool[i].window_label = windows[1].label
       /\ NormPhone(pool[i].phone) = NormPhone(r.phone)

\* ---------------------------------------------------------------- C27
\* the roster read cyclically from 0-based position start
CyclicFrom(ids, start) ==
  [i \in DOMAIN ids |-> ids[((start + i - 1) % Len(ids)) + 1]]

\* the rows of source s among the rows assigned so far, in assignment order
AssignedOfSource(s) ==
  SelectSeq([i \in DOMAIN assigned_rows |-> assigned_rows[i][1]],
            LAMBDA idx : candidates[idx] = s)

\* C27: the primary pass of a source starts its offers at roster position
\* hash(date-source) mod roster_size; every offer goes to the caller at the
\* head of the rotation and moves the rotation on by exactly one caller,
\* accepted or not; an accepted offer assigns the head row of the source and a
\* refused one leaves the rows as they were; so the rows of a source are
\* assigned in increasing pool position, ahead of the rows still waiting.
C27_PrimaryRotation ==
  /\ [][/\ (pc = "primary" /\ pc' = "primary_rr") =>
             rr_callers' =
               CyclicFrom(caller_ids,
                          Md5Source[today][CurSrc] % Len(caller_ids))
        /\ (pc = "primary_rr" /\ pc' = "primary_rr") =>
             /\ rr_callers' = CyclicFrom(rr_callers, 1)
             /\ \/ /\ assigned_rows' = Append(assigned_rows,
                                              <<Head(per_source[CurSrc]), Head(rr_callers)>>)
                   /\ per_source' = [per_source EXCEPT ![CurSrc] = Tail(@)]
                \/ /\ assigned_rows' = assigned_rows
                   /\ per_source' = per_source]_vars
  /\ [](pc \in {"primary", "primary_rr"} =>
          \A s \in AllSources :
            LET given == AssignedOfSource(s)
            IN /\ \A i, j \in DOMAIN given : i < j => given[i] < given[j]
               /\ \A i \in DOMAIN given : \A j \in DOMAIN per_source[s] :
                    given[i] < per_source[s][j])

\* the offers of a source started away from the head of a roster of three, two
\* of its rows were accepted, and a third is waiting at the head
C27_Witness ==
  /\ pc = "primary_rr"
  /\ Len(caller_ids) = 3
  /\ Md5Source[today][CurSrc] % 3 # 0
  /\ Len(AssignedOfSource(CurSrc)) = 2
  /\ per_source[CurSrc] # <<>>

\* ---------------------------------------------------------------- C28
\* C28: once allocate has set up its counters, every caller's remaining
\* capacity and every per-source quota is >= 0 in every state; in every state
\* of the primary pass a caller's remaining capacity is the sum of its
\* remaining per-source quotas; and every turn of a primary-pass loop assigns
\* a row (so an assignment is made within roster_size offers).
C28_CountersConsistent ==
  /\ [](pc \in {"primary", "primary_rr", "spill", "build", "balance", "done"} =>
          \A c \in DOMAIN quotas :
            /\ remaining_capacity[c] >= 0
            /\ \A s \in DOMAIN quotas[c] : quotas[c][s] >= 0)
  /\ [](pc \in {"primary", "primary_rr"} =>
          \A c \in Range(caller_ids) :
            remaining_capacity[c] = SumValues(quotas[c]))
  /\ [][(pc = "primary_rr" /\ pc' = "primary_rr") =>
          Len(assigned_rows') = Len(assigned_rows) + 1]_vars

\* the primary pass is at its second source, a caller has taken a row of the
\* first and still has quota and capacity left
C28_Witness ==
  /\ pc = "primary_rr"
  /\ src_i = 2
  /\ \E c \in Range(caller_ids) :
       /\ RowsGiven(assigned_rows, c) >= 1
       /\ quotas[c][CurSrc] >= 1
       /\ remaining_capacity[c] >= 1

\* ---------------------------------------------------------------- C29
\* a call within the claim's inputs: a non-empty frame that carries
\* last_login_date and phone, a non-empty rule list, the identity predicate
IdentityGateCall ==
  /\ df_all # <<>>
  /\ RequiredColumns \subseteq df_columns
  /\ windows # <<>>
  /\ apply_all_filters = {}

\* C29: on such inputs, for every target_rows, build_candidate_pool returns
\* without an error the pool that build_windowed_pool returns for the same
\* frame, as-of date, rules and target: the same rows in the same order with
\* the same window labels, under the same columns (and the stepwise
\* build_windowed_pool returns that pool too).
C29_BuildersAgree ==
  IdentityGateCall =>
    /\ ppc # "raised"
    /\ ppc = "done" =>
         /\ pool = BuildWindowedPool(df_all, asof, windows, target_rows)
         /\ pool_columns = df_columns \cup {"window_label"}

\* build_candidate_pool returned on such inputs after passing over a first
\* window that matched nothing, and trimmed what the second window gave
C29_Witness ==
  /\ builder = "build_candidate_pool"
  /\ ppc = "done"
  /\ IdentityGateCall
  /\ Len(windows) = 2
  /\ WindowSlice(windows[1]) = <<>>
  /\ pool # <<>>
  /\ Len(pool) < Len(WindowSlice(windows[2]))

\* ---------------------------------------------------------------- C30
\* C30: whenever run_assignment_flow calls allocate, the pool it passes has
\* at most roster_size * PER_CALLER_TARGET rows, on the paths that skip the
\* window filtering as well.
C30_PoolWithinCapacity ==
  fl_result = "assigned" =>
    Len(fl_alloc.candidates) <= Len(fl_alloc.caller_ids) * fl_alloc.per_caller_target

====
